---- MODULE Spec2Model ----
(***************************************************************************)
(* Model of the RabbitMQ-backed job queue of the repository:               *)
(*   src/modules/queue/providers/rabbitmq.provider.ts  (RabbitMQProvider)  *)
(*   src/modules/queue/services/queue.service.ts       (QueueService)      *)
(* The broker is modelled by its documented behaviour: durable FIFO        *)
(* queues, per-consumer prefetch, requeue to the head of the queue,        *)
(* dead-lettering through x-dead-letter-routing-key and per-queue          *)
(* x-message-ttl expiring at the head of the queue.                        *)
(* Time is counted in ticks of one millisecond.                            *)
(***************************************************************************)
EXTENDS Integers, Sequences, FiniteSets, TLC

\* ---------------------------------------------------------------- bounds
MaxJobs == 2          \* addJob calls that succeed
MaxConsumers == 2     \* registerProcessor calls that succeed
MaxInvoked == 3       \* the per-job invocation counter saturates here
MaxDelay == 2         \* largest options.delay, in ms
MaxForeign == 1       \* messages of other publishers present at a time
MaxDeliveryTag == 2   \* delivery tags below it are exact, it stands for itself and above

\* ------------------------------------------------------ program constants
DefaultMaxRetries == 3
DefaultRetryDelay == 5000
PrefetchCount == 1
queuePrefix == "enterprise"

\* ----------------------------------------------------------------- inputs
Queues == {"email-queue", "search-indexing-queue"}
\* an option is <<>> when it is not given and <<n>> when it is n
NoOptions == [delay |-> <<>>, maxRetries |-> <<>>, retryDelay |-> <<>>,
              priority |-> <<>>, timeout |-> <<>>]
\* the option sets the retry and delay properties are exercised with
CoreOptions ==
    {NoOptions,
     [NoOptions EXCEPT !.maxRetries = <<2>>, !.retryDelay = <<10>>],
     [NoOptions EXCEPT !.maxRetries = <<1>>, !.delay = <<MaxDelay>>]}

\* options that give zero, next to options that give nothing
EdgeOptions ==
    {NoOptions,
     [NoOptions EXCEPT !.maxRetries = <<0>>, !.retryDelay = <<0>>]}

\* options that ask for a priority, next to options that give nothing
PriorityOptions == {NoOptions, [NoOptions EXCEPT !.priority = <<9>>]}

\* options with no delay, a delay of 0 and two positive delays
DelayOptions ==
    {NoOptions,
     [NoOptions EXCEPT !.delay = <<0>>],
     [NoOptions EXCEPT !.delay = <<1>>],
     [NoOptions EXCEPT !.delay = <<MaxDelay>>]}

\* options that give a timeout of 1 ms, next to options that give nothing
TimeoutOptions == {NoOptions, [NoOptions EXCEPT !.timeout = <<1>>]}

\* the delayMs values and the options addDelayedJob is called with; the type
\* of its options leaves `delay` out, an untyped caller can still pass one
FacadeDelays == {-1, 0, MaxDelay}
FacadeOptions ==
    {NoOptions,
     [NoOptions EXCEPT !.maxRetries = <<1>>, !.delay = <<MaxDelay + 1>>]}

VARIABLES
    channel,      \* this.channel: [open, prefetch]
    queues,       \* broker: queue name -> [args, msgs]; DOMAIN = asserted queues
    processors,   \* this.processors: queue name -> handler
    consumers,    \* broker: sequence of consumers [queue, handler], index = consumer tag
    inflight,     \* unacknowledged deliveries [tag, dtag, msg, phase, retryDelay];
                  \* tag: consumer tag, dtag: delivery tag (0: not tracked);
                  \* phase: running, retryWait, abandoned
    jobs,         \* per job id: what was asked for and what has been observed of it
    lastOp,       \* outcome of the last call of the public API
    lastErr,      \* the error the last call of the public API threw, or "none"
    url,          \* rabbitMQConfig.url is set
    link,         \* the connection behind the handles: none, up, lost, closed,
                  \* channelClosed (the connection is open, the broker closed the channel)
    brokerUp,     \* the broker accepts connections
    reconnectTimer, \* a setTimeout(() => this.connect(), 5000) is pending
    closeCalls,   \* the close() calls the last disconnect() made, in order
    unhandled,    \* an error escaped a callback that has no caller
    delivered,    \* broker: the last delivery tag of the channel, where tags are tracked
    stale,        \* consume callbacks still running or waiting for their timer whose
                  \* delivery the broker no longer holds: [dtag, msg, phase]
    misdirected, \* an ack or nack was sent on a channel that did not deliver its message
    initialised   \* the processors whose onModuleInit() has run, by logical queue name

vars == <<channel, queues, processors, consumers, inflight, jobs, lastOp, lastErr,
          url, initialised, link, brokerUp, reconnectTimer, closeCalls, unhandled, delivered,
          stale, misdirected>>

\* what the producer and consumer paths never write
connVars == <<url, initialised, brokerUp, reconnectTimer, closeCalls>>

\* what only a connection lost with deliveries outstanding brings into play
lossVars == <<delivered, stale, misdirected>>

\* ---------------------------------------------------------------- helpers
\* JavaScript `x || d` on an optional number: undefined and 0 are falsy
OrDefault(o, d) == IF o = <<>> THEN d ELSE IF o[1] = 0 THEN d ELSE o[1]

SatInc(n, max) == IF n < max THEN n + 1 ELSE max

NoHandler == "none"
NoChannel == [open |-> FALSE, prefetch |-> 0]

getQueueName(name) == <<queuePrefix, name>>
getDeadLetterQueueName(name) == getQueueName(name) \o <<"dlq">>
\* one delay queue per logical queue, whatever the delay
getDelayQueueNameShared(name, delay) == getQueueName(name) \o <<"delay">>
\* `${this.getQueueName(queueName)}.delay.${options.delay}`
getDelayQueueName(name, delay) == getQueueName(name) \o <<"delay", delay>>

\* ----------------------------------------------------------------- broker
\* channel.assertQueue: create if absent, keep the queue when it exists
AssertQueue(qs, name, args) ==
    IF name \in DOMAIN qs THEN qs
    ELSE (name :> [args |-> args, msgs |-> <<>>]) @@ qs

\* a broker that puts a published message at the head of the queue
PublishAtHead(qs, name, m) ==
    IF name \in DOMAIN qs
    THEN [qs EXCEPT ![name].msgs = <<[m EXCEPT !.ttlLeft = qs[name].args.ttl]>> \o @]
    ELSE qs
\* default exchange: route to the queue of that name, drop when there is none;
\* a queue with x-message-ttl stamps the message with its time to live
Publish(qs, name, m) ==
    IF name \in DOMAIN qs
    THEN [qs EXCEPT ![name].msgs = Append(@, [m EXCEPT !.ttlLeft = qs[name].args.ttl])]
    ELSE qs

\* a message leaving `from` dead: routed by the queue's x-dead-letter-routing-key
DeadLetter(qs, from, m) ==
    IF qs[from].args.dlk = <<>> THEN qs
    ELSE Publish(qs, qs[from].args.dlk[1], m)

\* basic.nack(requeue=true): back to the head of the queue it came from
Requeue(qs, name, m) ==
    IF name \in DOMAIN qs
    THEN [qs EXCEPT ![name].msgs = <<m>> \o @]
    ELSE qs

Unacked(c) == {d \in inflight : d.tag = c}

\* ------------------------------------------------------------- ensureQueue
\* channel.assertQueue is refused (PRECONDITION_FAILED) when the queue exists
\* with other arguments
AssertRefused(qs, name, args) == name \in DOMAIN qs /\ qs[name].args # args

\* an ensureQueue that declares both queues under the main queue's name
ensureQueueOneName(qs, name) ==
    LET qs1 == AssertQueue(qs, getQueueName(name), [ttl |-> 0, dlk |-> <<>>])
    IN  AssertQueue(qs1, getQueueName(name),
                    [ttl |-> 0, dlk |-> <<getDeadLetterQueueName(name)>>])
\* the broker after ensureQueue's two assertQueue calls
ensureQueue(qs, name) ==
    LET dlqName == getDeadLetterQueueName(name)
        qs1 == AssertQueue(qs, dlqName, [ttl |-> 0, dlk |-> <<>>])
    IN  AssertQueue(qs1, getQueueName(name), [ttl |-> 0, dlk |-> <<dlqName>>])

\* one of ensureQueue's two assertQueue calls is refused
ensureQueueRefused(qs, name) ==
    LET dlqName == getDeadLetterQueueName(name)
    IN  \/ AssertRefused(qs, dlqName, [ttl |-> 0, dlk |-> <<>>])
        \/ AssertRefused(qs, getQueueName(name), [ttl |-> 0, dlk |-> <<dlqName>>])

\* ------------------------------------------------------------------ state
Init ==
    /\ channel = NoChannel
    /\ queues = <<>>
    /\ processors = [q \in Queues |-> NoHandler]
    /\ consumers = <<>>
    /\ inflight = {}
    /\ jobs = <<>>
    /\ lastOp = [op |-> "none", ok |-> TRUE, ret |-> 0]
    /\ lastErr = "none"
    /\ url = TRUE
    /\ link = "none"
    /\ brokerUp = TRUE
    /\ reconnectTimer = FALSE
    /\ closeCalls = <<>>
    /\ unhandled = FALSE
    /\ delivered = 0
    /\ stale = {}
    /\ misdirected = FALSE
    /\ initialised = {}

\* connect() leaving the channel's prefetch unlimited
ConnectNoPrefetch ==
    /\ link = "none" /\ ~channel.open
    /\ url /\ brokerUp
    /\ channel' = [open |-> TRUE, prefetch |-> 0]
    /\ link' = "up"
    /\ lastOp' = [op |-> "connect", ok |-> TRUE, ret |-> 0]
    /\ lastErr' = "none"
    /\ UNCHANGED <<queues, processors, consumers, inflight, jobs, connVars, unhandled,
                   lossVars>>
\* connect() with a URL and a reachable broker: open the connection and the
\* channel, prefetch one message, listen for 'error' and 'close'
Connect ==
    /\ link = "none" /\ ~channel.open
    /\ url /\ brokerUp
    /\ channel' = [open |-> TRUE, prefetch |-> PrefetchCount]
    /\ link' = "up"
    /\ lastOp' = [op |-> "connect", ok |-> TRUE, ret |-> 0]
    /\ lastErr' = "none"
    /\ UNCHANGED <<queues, processors, consumers, inflight, jobs, connVars, unhandled,
                   lossVars>>

\* an envelope that starts at attempts = 1
NewJobAttemptsOne(jobId) == [id |-> jobId, attempts |-> 1]
\* the envelope addJob builds (const job: IJobData = {...})
NewJob(jobId) == [id |-> jobId, attempts |-> 0]

\* the publish options addJob builds (messageOptions.headers)
MessageHeaders(options) ==
    [xMaxRetries |-> OrDefault(options.maxRetries, DefaultMaxRetries),
     xRetryDelay |-> OrDefault(options.retryDelay, DefaultRetryDelay)]

\* options?.delay && options.delay > 0
IsDelayed(options) == options.delay # <<>> /\ options.delay[1] > 0

\* a delay queue whose TTL is one millisecond short
DelayQueueArgsShortTtl(queueName, delay) ==
    [ttl |-> delay - 1, dlk |-> <<getQueueName(queueName)>>]
\* a delay queue that dead-letters into the dead-letter queue
DelayQueueArgsToDlq(queueName, delay) ==
    [ttl |-> delay, dlk |-> <<getDeadLetterQueueName(queueName)>>]
\* arguments of the delay queue addJob asserts
DelayQueueArgs(queueName, delay) ==
    [ttl |-> delay, dlk |-> <<getQueueName(queueName)>>]

\* an addJob that sends the message twice
AddJobPublishTwice(qs, queueName, options, m) ==
    LET qs1 == ensureQueue(qs, queueName)
    IN  Publish(Publish(qs1, getQueueName(queueName), m), getQueueName(queueName), m)
\* the broker after addJob's assertQueue and sendToQueue calls
AddJobPublish(qs, queueName, options, m) ==
    LET qs1 == ensureQueue(qs, queueName)
    IN  IF IsDelayed(options)
        THEN LET delayQueueName == getDelayQueueName(queueName, options.delay[1])
                 qs2 == AssertQueue(qs1, delayQueueName,
                                    DelayQueueArgs(queueName, options.delay[1]))
             IN  Publish(qs2, delayQueueName, m)
        ELSE Publish(qs1, getQueueName(queueName), m)

\* what is remembered of a job for the properties: the call that made it,
\* the handler invocations and the acknowledgements seen so far
JobRecord(queueName, options) ==
    [queue |-> queueName,
     options |-> options,    \* as the caller gave them
     delay |-> IF IsDelayed(options) THEN options.delay[1] ELSE 0,
     maxRetries |-> OrDefault(options.maxRetries, DefaultMaxRetries),
     elapsed |-> 0,          \* ms since addJob, counted up to delay
     invoked |-> 0,          \* handler invocations, saturating at MaxInvoked
     observed |-> 0,         \* job.attempts the handler saw last
     outcome |-> "none",     \* of the last invocation: running, ok, threw
     returned |-> FALSE,     \* some invocation of the handler returned normally
     settle |-> "none"]      \* of the last delivery: ack, requeue, dead

\* the error the first channel operation of a call meets: the provider's own
\* 'RabbitMQ channel not available' when this.channel is null, the client
\* library's 'Channel closed' when the handle is kept but its channel is gone
ChannelError ==
    IF ~channel.open THEN "unavailable"
    ELSE IF link # "up" THEN "channelClosed"
    ELSE "none"

\* the error ensureQueue(name) throws, or "none"
EnsureQueueError(name) ==
    IF ChannelError # "none" THEN ChannelError
    ELSE IF ensureQueueRefused(queues, name) THEN "precondition"
    ELSE "none"

\* the call throws err to its caller before it has done anything
CallFails(op, err) ==
    /\ lastOp' = [op |-> op, ok |-> FALSE, ret |-> 0]
    /\ lastErr' = err
    /\ UNCHANGED <<channel, queues, processors, consumers, inflight, jobs>>

\* an id generator that hands out the same id again
uuidv4Repeats(issued) == 1
\* uuidv4(): an id that was not issued before (ids are numbered in issue order)
uuidv4(issued) == issued + 1

\* addJob(queueName, type, data, options)
AddJob(queueName, options) ==
    /\ Len(jobs) < MaxJobs
    /\ IF EnsureQueueError(queueName) # "none"
       THEN CallFails("addJob", EnsureQueueError(queueName))
       ELSE LET jobId == uuidv4(Len(jobs))
                m == [content |-> NewJob(jobId),
                      headers |-> MessageHeaders(options),
                      messageId |-> jobId,
                      ttlLeft |-> 0]
            IN  /\ queues' = AddJobPublish(queues, queueName, options, m)
                /\ jobs' = Append(jobs, JobRecord(queueName, options))
                /\ lastOp' = [op |-> "addJob", ok |-> TRUE, ret |-> jobId]
                /\ lastErr' = "none"
                /\ UNCHANGED <<channel, processors, consumers, inflight>>
    /\ UNCHANGED <<link, connVars, unhandled,
                   lossVars>>

\* a registerProcessor that stores the handler before it looks at the channel
RegisterProcessorStoresFirst(queueName, processor) ==
    /\ Len(consumers) < MaxConsumers
    /\ processors' = [processors EXCEPT ![queueName] = processor]
    /\ IF EnsureQueueError(queueName) # "none"
       THEN /\ lastOp' = [op |-> "registerProcessor", ok |-> FALSE, ret |-> 0]
            /\ lastErr' = EnsureQueueError(queueName)
            /\ UNCHANGED <<channel, queues, consumers, inflight, jobs>>
       ELSE /\ queues' = ensureQueue(queues, queueName)
            /\ consumers' = Append(consumers, [queue |-> getQueueName(queueName),
                                               handler |-> processor])
            /\ lastOp' = [op |-> "registerProcessor", ok |-> TRUE, ret |-> 0]
            /\ lastErr' = "none"
            /\ UNCHANGED <<channel, inflight, jobs>>
    /\ UNCHANGED <<link, connVars, unhandled,
                   lossVars>>
\* registerProcessor(queueName, processor)
RegisterProcessor(queueName, processor) ==
    /\ Len(consumers) < MaxConsumers
    /\ IF EnsureQueueError(queueName) # "none"
       THEN CallFails("registerProcessor", EnsureQueueError(queueName))
       ELSE /\ queues' = ensureQueue(queues, queueName)
            /\ processors' = [processors EXCEPT ![queueName] = processor]
            /\ consumers' = Append(consumers, [queue |-> getQueueName(queueName),
                                               handler |-> processor])
            /\ lastOp' = [op |-> "registerProcessor", ok |-> TRUE, ret |-> 0]
            /\ lastErr' = "none"
            /\ UNCHANGED <<channel, inflight, jobs>>
    /\ UNCHANGED <<link, connVars, unhandled,
                   lossVars>>

\* --------------------------------------------------------------- consumer
\* try { job = JSON.parse(msg.content); job.attempts++ ... }: what the handler sees
AttemptsSeen(m) == m.content.attempts + 1

\* JSON.parse(msg.content.toString()) returns an envelope (it throws otherwise)
Decodable(m) == "id" \in DOMAIN m.content

\* msg.properties.headers?.['x-max-retries'] || 3
AppliedMaxRetries(m) == OrDefault(<<m.headers.xMaxRetries>>, DefaultMaxRetries)
\* msg.properties.headers?.['x-retry-delay'] || 5000
AppliedRetryDelay(m) == OrDefault(<<m.headers.xRetryDelay>>, DefaultRetryDelay)

\* catch { job = JSON.parse(msg.content); ... job.attempts < maxRetries }
ShouldRetry(m) ==
    LET job == m.content
        maxRetries == AppliedMaxRetries(m)
    IN  job.attempts < maxRetries

\* a prefetch window shared by all consumers of the channel
HasRoomGlobal(c) ==
    channel.prefetch = 0 \/ Cardinality(inflight) < channel.prefetch
\* channel.prefetch(1) is basic.qos with global = false: the broker applies the
\* limit to each consumer of the channel separately
HasRoom(c) ==
    channel.prefetch = 0 \/ Cardinality(Unacked(c)) < channel.prefetch

\* the broker hands the head of the queue to consumer c (within its prefetch
\* window) and the consume callback runs up to `await processor(job)`; when the
\* body does not parse, JSON.parse throws in the try block and again in the
\* catch block, the callback's promise rejects with nobody awaiting it, and the
\* message is left unacknowledged
Deliver(c) ==
    /\ c \in 1..Len(consumers)
    /\ channel.open
    /\ consumers[c].queue \in DOMAIN queues
    /\ queues[consumers[c].queue].msgs # <<>>
    /\ HasRoom(c)
    /\ LET qn == consumers[c].queue
           m == Head(queues[qn].msgs)
           j == m.content.id
       IN  /\ queues' = [queues EXCEPT ![qn].msgs = Tail(@)]
           /\ IF Decodable(m)
              THEN /\ inflight' = inflight \cup
                        {[tag |-> c, dtag |-> 0, msg |-> m,
                          phase |-> "running", retryDelay |-> 0]}
                   /\ jobs' = [jobs EXCEPT ![j].invoked = SatInc(@, MaxInvoked),
                                           ![j].observed = AttemptsSeen(m),
                                           ![j].outcome = "running",
                                           ![j].settle = "none"]
                   /\ UNCHANGED unhandled
              ELSE /\ inflight' = inflight \cup
                        {[tag |-> c, dtag |-> 0, msg |-> m,
                          phase |-> "abandoned", retryDelay |-> 0]}
                   /\ unhandled' = TRUE
                   /\ UNCHANGED jobs
    /\ UNCHANGED <<channel, processors, consumers, lastOp, lastErr, link, connVars,
                   lossVars>>

\* a success path that acknowledges and publishes the job once more
HandlerReturnKeepsJob(d) ==
    /\ d \in inflight
    /\ d.phase = "running"
    /\ inflight' = inflight \ {d}
    /\ queues' = Publish(queues, consumers[d.tag].queue, d.msg)
    /\ jobs' = [jobs EXCEPT ![d.msg.content.id].outcome = "ok",
                            ![d.msg.content.id].returned = TRUE,
                            ![d.msg.content.id].settle = "ack"]
    /\ UNCHANGED <<channel, processors, consumers, lastOp,
                 lastErr, link, connVars, unhandled,
                   lossVars>>
\* the handler returned normally: channel.ack(msg)
HandlerReturn(d) ==
    /\ d \in inflight
    /\ d.phase = "running"
    /\ inflight' = inflight \ {d}
    /\ jobs' = [jobs EXCEPT ![d.msg.content.id].outcome = "ok",
                            ![d.msg.content.id].returned = TRUE,
                            ![d.msg.content.id].settle = "ack"]
    /\ UNCHANGED <<channel, queues, processors, consumers, lastOp,
                 lastErr, link, connVars, unhandled,
                   lossVars>>

\* a catch branch that acknowledges the failed message
HandlerThrowAcks(d) ==
    /\ d \in inflight
    /\ d.phase = "running"
    /\ inflight' = inflight \ {d}
    /\ jobs' = [jobs EXCEPT ![d.msg.content.id].outcome = "threw",
                            ![d.msg.content.id].settle = "ack"]
    /\ UNCHANGED <<channel, queues, processors, consumers, lastOp,
                 lastErr, link, connVars, unhandled,
                   lossVars>>
\* a catch branch that requeues at once, without the timer
HandlerThrowRequeuesNow(d) ==
    /\ d \in inflight
    /\ d.phase = "running"
    /\ inflight' = inflight \ {d}
    /\ IF ShouldRetry(d.msg)
       THEN /\ queues' = Requeue(queues, consumers[d.tag].queue, d.msg)
            /\ jobs' = [jobs EXCEPT ![d.msg.content.id].outcome = "threw",
                                    ![d.msg.content.id].settle = "requeue"]
       ELSE /\ queues' = DeadLetter(queues, consumers[d.tag].queue, d.msg)
            /\ jobs' = [jobs EXCEPT ![d.msg.content.id].outcome = "threw",
                                    ![d.msg.content.id].settle = "dead"]
    /\ UNCHANGED <<channel, processors, consumers, lastOp,
                   lastErr, link, connVars, unhandled,
                   lossVars>>
\* a callback that gives up on a handler still running when the job's
\* options.timeout is given, and dead-letters the message
HandlerTimesOut(d) ==
    /\ d \in inflight
    /\ d.phase = "running"
    /\ jobs[d.msg.content.id].options.timeout # <<>>
    /\ inflight' = inflight \ {d}
    /\ queues' = DeadLetter(queues, consumers[d.tag].queue, d.msg)
    /\ jobs' = [jobs EXCEPT ![d.msg.content.id].settle = "dead"]
    /\ UNCHANGED <<channel, processors, consumers, lastOp,
                   lastErr, link, connVars, unhandled,
                   lossVars>>
\* the handler threw or rejected: the catch branch of the consume callback
HandlerThrow(d) ==
    /\ d \in inflight
    /\ d.phase = "running"
    /\ IF ShouldRetry(d.msg)
       THEN \* setTimeout(() => channel.nack(msg, false, true), retryDelay)
            /\ inflight' = (inflight \ {d}) \cup
                   {[d EXCEPT !.phase = "retryWait",
                              !.retryDelay = AppliedRetryDelay(d.msg)]}
            /\ jobs' = [jobs EXCEPT ![d.msg.content.id].outcome = "threw"]
            /\ UNCHANGED queues
       ELSE \* channel.nack(msg, false, false)
            /\ inflight' = inflight \ {d}
            /\ queues' = DeadLetter(queues, consumers[d.tag].queue, d.msg)
            /\ jobs' = [jobs EXCEPT ![d.msg.content.id].outcome = "threw",
                                    ![d.msg.content.id].settle = "dead"]
    /\ UNCHANGED <<channel, processors, consumers, lastOp,
                 lastErr, link, connVars, unhandled,
                   lossVars>>

\* a timer that fires again and again (setInterval): the nack is sent and the
\* callback keeps its timer
TimerFireRepeats(d) ==
    /\ d \in inflight
    /\ d.phase = "retryWait"
    /\ UNCHANGED inflight
    /\ queues' = Requeue(queues, consumers[d.tag].queue, d.msg)
    /\ jobs' = [jobs EXCEPT ![d.msg.content.id].settle = "requeue"]
    /\ UNCHANGED <<channel, processors, consumers, lastOp,
                 lastErr, link, connVars, unhandled,
                   lossVars>>
\* the retry timer fires: channel.nack(msg, false, true)
TimerFire(d) ==
    /\ d \in inflight
    /\ d.phase = "retryWait"
    /\ inflight' = inflight \ {d}
    /\ queues' = Requeue(queues, consumers[d.tag].queue, d.msg)
    /\ jobs' = [jobs EXCEPT ![d.msg.content.id].settle = "requeue"]
    /\ UNCHANGED <<channel, processors, consumers, lastOp,
                 lastErr, link, connVars, unhandled,
                   lossVars>>

\* ------------------------------------------------------------ broker time
\* the head of a queue with x-message-ttl has outlived it: dead-lettered
Expire(qn) ==
    /\ qn \in DOMAIN queues
    /\ queues[qn].args.ttl > 0
    /\ queues[qn].msgs # <<>>
    /\ Head(queues[qn].msgs).ttlLeft = 0
    /\ queues' = DeadLetter([queues EXCEPT ![qn].msgs = Tail(@)], qn,
                            Head(queues[qn].msgs))
    /\ UNCHANGED <<channel, processors, consumers, inflight, jobs, lastOp,
                 lastErr, link, connVars, unhandled,
                   lossVars>>

DecTtl(m) == [m EXCEPT !.ttlLeft = IF @ > 0 THEN @ - 1 ELSE 0]

TimeMatters ==
    \E qn \in DOMAIN queues :
        \E i \in 1..Len(queues[qn].msgs) : queues[qn].msgs[i].ttlLeft > 0

\* one millisecond passes
Tick ==
    /\ TimeMatters
    /\ queues' = [qn \in DOMAIN queues |->
                    [queues[qn] EXCEPT !.msgs = [i \in 1..Len(@) |-> DecTtl(@[i])]]]
    /\ jobs' = [j \in 1..Len(jobs) |->
                    [jobs[j] EXCEPT !.elapsed = SatInc(@, jobs[j].delay)]]
    /\ UNCHANGED <<channel, processors, consumers, inflight, lastOp,
                 lastErr, link, connVars, unhandled,
                   lossVars>>

\* ------------------------------------------------------------ QueueService
\* a merge in which a delay given in the options wins: {delay: delayMs, ...options}
WithDelayKeepsOption(options, delayMs) ==
    IF options.delay # <<>> THEN options ELSE [options EXCEPT !.delay = <<delayMs>>]
\* {...options, delay: delayMs}
WithDelay(options, delayMs) == [options EXCEPT !.delay = <<delayMs>>]

\* QueueService.addDelayedJob(queueName, type, data, delayMs, options):
\* this.addJob(...), which is this.rabbitMQ.addJob(...) and nothing else
AddDelayedJob(queueName, delayMs, options) ==
    AddJob(queueName, WithDelay(options, delayMs))

\* ------------------------------------------------- the rest of the public API
\* ensureQueue(name), called directly
EnsureQueue(queueName) ==
    /\ IF EnsureQueueError(queueName) # "none"
       THEN CallFails("ensureQueue", EnsureQueueError(queueName))
       ELSE /\ queues' = ensureQueue(queues, queueName)
            /\ lastOp' = [op |-> "ensureQueue", ok |-> TRUE, ret |-> 0]
            /\ lastErr' = "none"
            /\ UNCHANGED <<channel, processors, consumers, inflight, jobs>>
    /\ UNCHANGED <<link, connVars, unhandled,
                   lossVars>>

\* getQueueCount(queueName); with a usable channel the queue is taken to exist
GetQueueCount(queueName) ==
    /\ ChannelError = "none" => getQueueName(queueName) \in DOMAIN queues
    /\ IF ChannelError # "none"
       THEN CallFails("getQueueCount", ChannelError)
       ELSE /\ lastOp' = [op |-> "getQueueCount", ok |-> TRUE,
                          ret |-> Len(queues[getQueueName(queueName)].msgs)]
            /\ lastErr' = "none"
            /\ UNCHANGED <<channel, queues, processors, consumers, inflight, jobs>>
    /\ UNCHANGED <<link, connVars, unhandled,
                   lossVars>>

\* a purgeQueue that empties every queue the broker holds
PurgeQueueEveryQueue(queueName) ==
    /\ ChannelError = "none" => getQueueName(queueName) \in DOMAIN queues
    /\ IF ChannelError # "none"
       THEN CallFails("purgeQueue", ChannelError)
       ELSE /\ queues' = [qn \in DOMAIN queues |-> [queues[qn] EXCEPT !.msgs = <<>>]]
            /\ lastOp' = [op |-> "purgeQueue", ok |-> TRUE,
                          ret |-> Len(queues[getQueueName(queueName)].msgs)]
            /\ lastErr' = "none"
            /\ UNCHANGED <<channel, processors, consumers, inflight, jobs>>
    /\ UNCHANGED <<link, connVars, unhandled,
                   lossVars>>
\* purgeQueue(queueName); with a usable channel the queue is taken to exist
PurgeQueue(queueName) ==
    /\ ChannelError = "none" => getQueueName(queueName) \in DOMAIN queues
    /\ IF ChannelError # "none"
       THEN CallFails("purgeQueue", ChannelError)
       ELSE /\ queues' = [queues EXCEPT ![getQueueName(queueName)].msgs = <<>>]
            /\ lastOp' = [op |-> "purgeQueue", ok |-> TRUE,
                          ret |-> Len(queues[getQueueName(queueName)].msgs)]
            /\ lastErr' = "none"
            /\ UNCHANGED <<channel, processors, consumers, inflight, jobs>>
    /\ UNCHANGED <<link, connVars, unhandled,
                   lossVars>>

\* -------------------------------------------------------- other publishers
\* a body that is not the JSON of a job envelope, published without headers
ForeignMessage ==
    [content |-> [raw |-> "not json"],
     headers |-> [xMaxRetries |-> 0, xRetryDelay |-> 0],
     messageId |-> 0,
     ttlLeft |-> 0]

\* the undecodable messages the broker holds, ready or unacknowledged
ForeignPresent ==
    Cardinality(UNION {{<<qn, i>> : i \in {k \in 1..Len(queues[qn].msgs) :
                                              ~Decodable(queues[qn].msgs[k])}} :
                       qn \in DOMAIN queues})
    + Cardinality({d \in inflight : ~Decodable(d.msg)})

\* some other client of the broker publishes such a body to the main queue
PublishForeign(queueName) ==
    /\ brokerUp
    /\ getQueueName(queueName) \in DOMAIN queues
    /\ ForeignPresent < MaxForeign
    /\ queues' = Publish(queues, getQueueName(queueName), ForeignMessage)
    /\ UNCHANGED <<channel, processors, consumers, inflight, jobs, lastOp, lastErr,
                   link, connVars, unhandled,
                   lossVars>>

\* ---------------------------------------------------- connection lifecycle
\* isConnected(): this.connection !== null && this.channel !== null; both
\* handles are assigned by the same successful connect()
isConnected == channel.open

\* connect() without a URL: warn and return
ConnectNoUrl ==
    /\ link = "none"
    /\ ~url
    /\ lastOp' = [op |-> "connect", ok |-> TRUE, ret |-> 0]
    /\ lastErr' = "none"
    /\ UNCHANGED <<channel, queues, processors, consumers, inflight, jobs, link,
                   connVars, unhandled,
                   lossVars>>

\* a connect() that lets the connection error reach its caller
ConnectFailedThrows ==
    /\ link = "none"
    /\ url /\ ~brokerUp
    /\ lastOp' = [op |-> "connect", ok |-> FALSE, ret |-> 0]
    /\ lastErr' = "connectFailed"
    /\ UNCHANGED <<channel, queues, processors, consumers, inflight, jobs, link,
                   connVars, unhandled,
                   lossVars>>
\* connect() with a URL and no broker: amqp.connect rejects, the catch logs it
ConnectFailed ==
    /\ link = "none"
    /\ url /\ ~brokerUp
    /\ lastOp' = [op |-> "connect", ok |-> TRUE, ret |-> 0]
    /\ lastErr' = "none"
    /\ UNCHANGED <<channel, queues, processors, consumers, inflight, jobs, link,
                   connVars, unhandled,
                   lossVars>>

\* the broker goes away. An open connection emits 'close': the broker's
\* consumers on it are gone, the handler logs and calls reconnect(), which sets
\* the 5 s timer; this.connection and this.channel keep their values. Durable
\* queues and persistent messages stay. (This step waits until no delivery is
\* outstanding; a connection that ends with deliveries outstanding is
\* ConnectionLost.)
BrokerStops ==
    /\ brokerUp
    /\ brokerUp' = FALSE
    /\ IF link = "up"
       THEN /\ inflight = {}
            /\ link' = "lost"
            /\ consumers' = <<>>
            /\ reconnectTimer' = TRUE
       ELSE UNCHANGED <<link, consumers, reconnectTimer>>
    /\ UNCHANGED <<channel, queues, processors, inflight, jobs, lastOp, lastErr,
                   url, initialised, closeCalls, unhandled, lossVars>>

\* the broker accepts connections again
BrokerStarts ==
    /\ ~brokerUp
    /\ brokerUp' = TRUE
    /\ UNCHANGED <<channel, queues, processors, consumers, inflight, jobs, lastOp,
                   lastErr, url, initialised, link, reconnectTimer, closeCalls, unhandled, lossVars>>

\* the reconnect timer fires: connect() runs once more, with nobody awaiting it
ReconnectFire ==
    /\ reconnectTimer
    /\ reconnectTimer' = FALSE
    /\ IF url /\ brokerUp
       THEN /\ channel' = [open |-> TRUE, prefetch |-> PrefetchCount]
            /\ link' = "up"
            /\ delivered' = 0
       ELSE UNCHANGED <<channel, link, delivered>>
    /\ UNCHANGED <<queues, processors, consumers, inflight, jobs, lastOp, lastErr,
                   url, initialised, brokerUp, closeCalls, unhandled, stale, misdirected>>

\* a disconnect() that closes the connection before the channel
DisconnectConnectionFirst ==
    /\ link = "up" => inflight = {}
    /\ IF ~channel.open
       THEN /\ closeCalls' = <<>>
            /\ UNCHANGED <<link, consumers, reconnectTimer>>
       ELSE IF link = "up"
       THEN /\ closeCalls' = <<"connection", "channel">>
            /\ link' = "closed"
            /\ consumers' = <<>>
            /\ reconnectTimer' = TRUE
       ELSE /\ closeCalls' = <<"connection">>
            /\ UNCHANGED <<link, consumers, reconnectTimer>>
    /\ lastOp' = [op |-> "disconnect", ok |-> TRUE, ret |-> 0]
    /\ lastErr' = "none"
    /\ UNCHANGED <<channel, queues, processors, inflight, jobs, url, initialised, brokerUp,
                   unhandled, lossVars>>
\* disconnect(): close the channel, then the connection; an error thrown by a
\* close (the channel is already closed) skips what follows and is logged.
\* Closing an open connection emits 'close', whose handler calls reconnect().
Disconnect ==
    /\ link = "up" => inflight = {}
    /\ IF ~channel.open
       THEN /\ closeCalls' = <<>>
            /\ UNCHANGED <<link, consumers, reconnectTimer>>
       ELSE IF link = "up"
       THEN /\ closeCalls' = <<"channel", "connection">>
            /\ link' = "closed"
            /\ consumers' = <<>>
            /\ reconnectTimer' = TRUE
       ELSE /\ closeCalls' = <<"channel">>
            /\ UNCHANGED <<link, consumers, reconnectTimer>>
    /\ lastOp' = [op |-> "disconnect", ok |-> TRUE, ret |-> 0]
    /\ lastErr' = "none"
    /\ UNCHANGED <<channel, queues, processors, inflight, jobs, url, initialised, brokerUp,
                   unhandled, lossVars>>

\* ------------------------------- deliveries that outlive their connection
\* the broker hands the head of the queue to consumer c as Deliver does, and
\* the delivery carries the channel's next delivery tag
DeliverTagged(c) ==
    /\ c \in 1..Len(consumers)
    /\ channel.open
    /\ consumers[c].queue \in DOMAIN queues
    /\ queues[consumers[c].queue].msgs # <<>>
    /\ HasRoom(c)
    /\ LET qn == consumers[c].queue
           m == Head(queues[qn].msgs)
           j == m.content.id
           dtag == SatInc(delivered, MaxDeliveryTag)
       IN  /\ queues' = [queues EXCEPT ![qn].msgs = Tail(@)]
           /\ delivered' = dtag
           /\ IF Decodable(m)
              THEN /\ inflight' = inflight \cup
                        {[tag |-> c, dtag |-> dtag, msg |-> m,
                          phase |-> "running", retryDelay |-> 0]}
                   /\ jobs' = [jobs EXCEPT ![j].invoked = SatInc(@, MaxInvoked),
                                           ![j].observed = AttemptsSeen(m),
                                           ![j].outcome = "running",
                                           ![j].settle = "none"]
                   /\ UNCHANGED unhandled
              ELSE /\ inflight' = inflight \cup
                        {[tag |-> c, dtag |-> dtag, msg |-> m,
                          phase |-> "abandoned", retryDelay |-> 0]}
                   /\ unhandled' = TRUE
                   /\ UNCHANGED jobs
    /\ UNCHANGED <<channel, processors, consumers, lastOp, lastErr, link, connVars,
                   stale, misdirected>>

\* the consume callbacks of the deliveries ds that have not finished: awaiting
\* the handler, or waiting for the retry timer with msg in the closure
Continuations(ds) ==
    {[dtag |-> d.dtag, msg |-> d.msg, phase |-> d.phase] :
        d \in {x \in ds : x.phase # "abandoned"}}

\* the place a message had in its queue: jobs are published in id order
Rank(d) == IF Decodable(d.msg) THEN d.msg.content.id ELSE 0

\* the broker puts the unacknowledged deliveries ds of a channel that ended
\* back into their queues, each at the place it had
RECURSIVE RequeueAll(_, _, _)
RequeueAll(qs, cs, ds) ==
    IF ds = {} THEN qs
    ELSE LET d == CHOOSE x \in ds : \A y \in ds : Rank(x) >= Rank(y)
         IN  RequeueAll(Requeue(qs, cs[d.tag].queue, d.msg), cs, ds \ {d})

\* the connection ends with deliveries outstanding while the broker keeps
\* running (the network drops, a heartbeat is missed): the broker requeues
\* them and drops the consumers; the 'close' handler logs and calls
\* reconnect(); the callbacks of those deliveries go on in the process
ConnectionLost ==
    /\ link = "up"
    /\ inflight # {}
    /\ stale = {}
    /\ link' = "lost"
    /\ queues' = RequeueAll(queues, consumers, inflight)
    /\ stale' = stale \cup Continuations(inflight)
    /\ inflight' = {}
    /\ consumers' = <<>>
    /\ reconnectTimer' = TRUE
    /\ UNCHANGED <<channel, processors, jobs, lastOp, lastErr, url, initialised, brokerUp,
                   closeCalls, unhandled, delivered, misdirected>>

\* the broker receives on the open channel the ack or nack that callback s
\* sends with the delivery tag of its own, ended, delivery. Delivery tags
\* count from 1 on every channel: when a delivery of this channel carries the
\* tag, that delivery is settled in kind (its own callback goes on); when none
\* does, the broker closes the channel with PRECONDITION_FAILED, requeues what
\* the channel held, and the channel's 'error' event finds no listener.
BrokerSettles(s, kind, js) ==
    LET hit == {d \in inflight : d.dtag = s.dtag}
    IN  IF hit # {}
        THEN LET d == CHOOSE x \in hit : TRUE
                 qn == consumers[d.tag].queue
             IN  /\ inflight' = inflight \ {d}
                 /\ queues' = IF kind = "requeue" THEN Requeue(queues, qn, d.msg)
                              ELSE IF kind = "dead" THEN DeadLetter(queues, qn, d.msg)
                              ELSE queues
                 /\ stale' = (stale \ {s}) \cup Continuations({d})
                 /\ jobs' = IF Decodable(d.msg)
                            THEN [js EXCEPT ![d.msg.content.id].settle = kind]
                            ELSE js
                 /\ UNCHANGED <<link, consumers, unhandled>>
        ELSE /\ inflight' = {}
             /\ queues' = RequeueAll(queues, consumers, inflight)
             /\ stale' = (stale \ {s}) \cup Continuations(inflight)
             /\ jobs' = js
             /\ consumers' = <<>>
             /\ link' = "channelClosed"
             /\ unhandled' = TRUE

\* callback s calls ack or nack on this.channel, which is whatever channel
\* the provider holds now: an open one takes the call, a closed one throws
SendsOnOpenChannel(s) == link = "up" /\ s.dtag < MaxDeliveryTag
CallThrows == link # "up"

\* the handler of a delivery that is gone returns normally:
\* this.channel.ack(msg). On a closed channel ack throws, which lands in the
\* catch block of the same callback: retry timer, or a nack that throws again
StaleReturn(s) ==
    /\ s \in stale
    /\ s.phase = "running"
    /\ SendsOnOpenChannel(s) \/ CallThrows
    /\ LET js == [jobs EXCEPT ![s.msg.content.id].returned = TRUE]
       IN  IF SendsOnOpenChannel(s)
           THEN /\ misdirected' = TRUE
                /\ BrokerSettles(s, "ack", js)
           ELSE /\ jobs' = js
                /\ IF ShouldRetry(s.msg)
                   THEN /\ stale' = (stale \ {s}) \cup {[s EXCEPT !.phase = "retryWait"]}
                        /\ UNCHANGED unhandled
                   ELSE /\ stale' = stale \ {s}
                        /\ unhandled' = TRUE
                /\ UNCHANGED <<queues, consumers, inflight, link, misdirected>>
    /\ UNCHANGED <<channel, processors, lastOp, lastErr, connVars, delivered>>

\* the handler of a delivery that is gone throws: the catch block sets the
\* retry timer, or calls this.channel.nack(msg, false, false)
StaleThrow(s) ==
    /\ s \in stale
    /\ s.phase = "running"
    /\ ShouldRetry(s.msg) \/ SendsOnOpenChannel(s) \/ CallThrows
    /\ IF ShouldRetry(s.msg)
       THEN /\ stale' = (stale \ {s}) \cup {[s EXCEPT !.phase = "retryWait"]}
            /\ UNCHANGED <<queues, consumers, inflight, jobs, link, unhandled,
                           misdirected>>
       ELSE IF SendsOnOpenChannel(s)
       THEN /\ misdirected' = TRUE
            /\ BrokerSettles(s, "dead", jobs)
       ELSE /\ stale' = stale \ {s}
            /\ unhandled' = TRUE
            /\ UNCHANGED <<queues, consumers, inflight, jobs, link, misdirected>>
    /\ UNCHANGED <<channel, processors, lastOp, lastErr, connVars, delivered>>

\* the retry timer of a delivery that is gone fires:
\* this.channel?.nack(msg, false, true); on a closed channel the call throws
\* out of the timer callback
StaleTimerFire(s) ==
    /\ s \in stale
    /\ s.phase = "retryWait"
    /\ SendsOnOpenChannel(s) \/ CallThrows
    /\ IF SendsOnOpenChannel(s)
       THEN /\ misdirected' = TRUE
            /\ BrokerSettles(s, "requeue", jobs)
       ELSE /\ stale' = stale \ {s}
            /\ unhandled' = TRUE
            /\ UNCHANGED <<queues, consumers, inflight, jobs, link, misdirected>>
    /\ UNCHANGED <<channel, processors, lastOp, lastErr, connVars, delivered>>


\* ---------------------------------------------------------- specification
NextOver(Qs, Hs, Os) ==
    \/ Connect
    \/ \E q \in Qs, o \in Os : AddJob(q, o)
    \/ \E q \in Qs, h \in Hs : RegisterProcessor(q, h)
    \/ \E c \in 1..MaxConsumers : Deliver(c)
    \/ \E d \in inflight : HandlerReturn(d)
    \/ \E d \in inflight : HandlerThrow(d)
    \/ \E d \in inflight : TimerFire(d)
    \/ \E qn \in DOMAIN queues : Expire(qn)
    \/ Tick

\* one logical queue, one handler function, the core option sets
Next == NextOver({"email-queue"}, {"h1"}, CoreOptions)

Spec == Init /\ [][Next]_vars

\* the handler invocation for job j ends, by returning or by throwing
HandlerDone(j) ==
    \E d \in inflight : d.msg.content.id = j /\ (HandlerReturn(d) \/ HandlerThrow(d))

\* the retry timer of job j fires
TimerDone(j) ==
    \E d \in inflight : d.msg.content.id = j /\ TimerFire(d)

\* the broker hands job j to some consumer
DeliverJob(j) ==
    \E c \in 1..MaxConsumers :
        /\ c \in 1..Len(consumers)
        /\ consumers[c].queue \in DOMAIN queues
        /\ queues[consumers[c].queue].msgs # <<>>
        /\ Head(queues[consumers[c].queue].msgs).content.id = j
        /\ Deliver(c)

\* a ready message at the head of a queue whose consumer has room is delivered
\* (strongly fair: the broker does not pass over it for ever); a running
\* handler finishes, a pending timer fires, an expired message leaves its
\* delay queue, time passes
Fairness ==
    /\ WF_vars(Tick)
    /\ \A j \in 1..MaxJobs : SF_vars(DeliverJob(j))
    /\ \A j \in 1..MaxJobs : WF_vars(HandlerDone(j)) /\ WF_vars(TimerDone(j))
    /\ \A q \in Queues, dl \in 1..MaxDelay : WF_vars(Expire(getDelayQueueName(q, dl)))

FairSpec == Spec /\ Fairness

\* the provider with or without a configured URL, nothing connected yet
ConnInit ==
    /\ channel = NoChannel
    /\ queues = <<>>
    /\ processors = [q \in Queues |-> NoHandler]
    /\ consumers = <<>>
    /\ inflight = {}
    /\ jobs = <<>>
    /\ lastOp = [op |-> "none", ok |-> TRUE, ret |-> 0]
    /\ lastErr = "none"
    /\ url \in BOOLEAN
    /\ link = "none"
    /\ brokerUp = TRUE
    /\ reconnectTimer = FALSE
    /\ closeCalls = <<>>
    /\ unhandled = FALSE
    /\ delivered = 0
    /\ stale = {}
    /\ misdirected = FALSE
    /\ initialised = {}

\* the public API and the connection's life, over one logical queue and jobs
\* without a delay
ConnNext ==
    \/ Connect
    \/ ConnectNoUrl
    \/ ConnectFailed
    \/ BrokerStops
    \/ BrokerStarts
    \/ ReconnectFire
    \/ Disconnect
    \/ \E q \in {"email-queue"} : EnsureQueue(q)
    \/ \E q \in {"email-queue"} : GetQueueCount(q)
    \/ \E q \in {"email-queue"} : PurgeQueue(q)
    \/ \E q \in {"email-queue"} : AddJob(q, NoOptions)
    \/ \E q \in {"email-queue"} : RegisterProcessor(q, "h1")
    \/ \E c \in 1..MaxConsumers : Deliver(c)
    \/ \E d \in inflight : HandlerReturn(d)
    \/ \E d \in inflight : HandlerThrow(d)
    \/ \E d \in inflight : TimerFire(d)

ConnSpec == ConnInit /\ [][ConnNext]_vars

\* two logical queues over a connection that is lost and re-established while
\* deliveries are outstanding. The application calls addJob and
\* registerProcessor while the connection is up and registers one processor
\* per queue and connection (calls on a lost connection are ConnSpec's, a
\* second registration is RegSpec's); the handler of a delivery the broker
\* still holds returns, the handler of one it no longer holds returns or throws.
LossNext ==
    \/ Connect
    \/ \E q \in Queues :
           /\ link = "up"
           /\ AddJob(q, NoOptions)
    \/ \E q \in Queues :
           /\ link = "up"
           /\ \A c \in 1..Len(consumers) : consumers[c].queue # getQueueName(q)
           /\ RegisterProcessor(q, "h1")
    \/ \E c \in 1..MaxConsumers : DeliverTagged(c)
    \/ \E d \in inflight : HandlerReturn(d)
    \/ ConnectionLost
    \/ ReconnectFire
    \/ \E s \in stale : StaleReturn(s)
    \/ \E s \in stale : StaleThrow(s)
    \/ \E s \in stale : StaleTimerFire(s)

LossSpec == Init /\ [][LossNext]_vars

\* jobs whose options give zero and messages of other publishers, over one
\* logical queue and a connection that stays up
EdgeNext ==
    \/ Connect
    \/ \E q \in {"email-queue"}, o \in EdgeOptions : AddJob(q, o)
    \/ \E q \in {"email-queue"} : RegisterProcessor(q, "h1")
    \/ \E q \in {"email-queue"} : PublishForeign(q)
    \/ \E c \in 1..MaxConsumers : Deliver(c)
    \/ \E d \in inflight : HandlerReturn(d)
    \/ \E d \in inflight : HandlerThrow(d)
    \/ \E d \in inflight : TimerFire(d)

EdgeSpec == Init /\ [][EdgeNext]_vars

\* one logical queue, two handler functions, a connection that stays up
RegNext ==
    \/ Connect
    \/ \E q \in {"email-queue"} : AddJob(q, NoOptions)
    \/ \E q \in {"email-queue"}, h \in {"h1", "h2"} : RegisterProcessor(q, h)
    \/ \E c \in 1..MaxConsumers : Deliver(c)
    \/ \E d \in inflight : HandlerReturn(d)
    \/ \E d \in inflight : HandlerThrow(d)
    \/ \E d \in inflight : TimerFire(d)

RegSpec == Init /\ [][RegNext]_vars

\* two logical queues, one handler function, a connection that stays up
IndepNext ==
    \/ Connect
    \/ \E q \in Queues : AddJob(q, NoOptions)
    \/ \E q \in Queues : RegisterProcessor(q, "h1")
    \/ \E c \in 1..MaxConsumers : Deliver(c)
    \/ \E d \in inflight : HandlerReturn(d)
    \/ \E d \in inflight : HandlerThrow(d)
    \/ \E d \in inflight : TimerFire(d)

IndepSpec == Init /\ [][IndepNext]_vars

\* one logical queue, one handler function, jobs with and without a priority,
\* a connection that stays up
FifoNext ==
    \/ Connect
    \/ \E q \in {"email-queue"}, o \in PriorityOptions : AddJob(q, o)
    \/ \E q \in {"email-queue"} : RegisterProcessor(q, "h1")
    \/ \E c \in 1..MaxConsumers : Deliver(c)
    \/ \E d \in inflight : HandlerReturn(d)
    \/ \E d \in inflight : HandlerThrow(d)
    \/ \E d \in inflight : TimerFire(d)

FifoSpec == Init /\ [][FifoNext]_vars

\* jobs made through QueueService.addDelayedJob, one logical queue, a handler
\* that returns, a connection that stays up
FacadeNext ==
    \/ Connect
    \/ \E q \in {"email-queue"}, dl \in FacadeDelays, o \in FacadeOptions :
           AddDelayedJob(q, dl, o)
    \/ \E q \in {"email-queue"} : RegisterProcessor(q, "h1")
    \/ \E c \in 1..MaxConsumers : Deliver(c)
    \/ \E d \in inflight : HandlerReturn(d)
    \/ \E qn \in DOMAIN queues : Expire(qn)
    \/ Tick

FacadeSpec == Init /\ [][FacadeNext]_vars

\* two logical queues and jobs of several delays, nothing consumed
DelayNext ==
    \/ Connect
    \/ \E q \in Queues, o \in DelayOptions : AddJob(q, o)
    \/ \E qn \in DOMAIN queues : Expire(qn)
    \/ Tick

DelaySpec == Init /\ [][DelayNext]_vars

\* one logical queue, one handler function, jobs with and without a timeout,
\* a connection that stays up
TimeoutNext ==
    \/ Connect
    \/ \E q \in {"email-queue"}, o \in TimeoutOptions : AddJob(q, o)
    \/ \E q \in {"email-queue"} : RegisterProcessor(q, "h1")
    \/ \E c \in 1..MaxConsumers : Deliver(c)
    \/ \E d \in inflight : HandlerReturn(d)
    \/ \E d \in inflight : HandlerThrow(d)
    \/ \E d \in inflight : TimerFire(d)

TimeoutSpec == Init /\ [][TimeoutNext]_vars

\* ------------------------------------------------------ application start
\* EmailProcessor.onModuleInit(), SearchIndexProcessor.onModuleInit():
\* try { await this.queueService.registerProcessor(QUEUE_NAMES.X, this.process.bind(this)) }
\* catch (error) { this.logger.warn(...) }: the hook runs once, and what
\* registerProcessor throws goes no further than the log
ProcessorOnModuleInit(queueName, process) ==
    /\ queueName \notin initialised
    /\ Len(consumers) < MaxConsumers
    /\ IF EnsureQueueError(queueName) # "none"
       THEN CallFails("registerProcessor", EnsureQueueError(queueName))
       ELSE /\ queues' = ensureQueue(queues, queueName)
            /\ processors' = [processors EXCEPT ![queueName] = process]
            /\ consumers' = Append(consumers, [queue |-> getQueueName(queueName),
                                               handler |-> process])
            /\ lastOp' = [op |-> "registerProcessor", ok |-> TRUE, ret |-> 0]
            /\ lastErr' = "none"
            /\ UNCHANGED <<channel, inflight, jobs>>
    /\ initialised' = initialised \cup {queueName}
    /\ UNCHANGED <<link, url, brokerUp, reconnectTimer, closeCalls, unhandled,
                   lossVars>>

\* QueueModule.onModuleInit(): await this.rabbitMQ.connect()
QueueModuleOnModuleInit == Connect

\* the application starting: the onModuleInit hooks of the two processors and
\* of the module, in any order; jobs are added and handled; the connection
\* stays up
BootNext ==
    \/ \E q \in Queues : ProcessorOnModuleInit(q, "h1")
    \/ QueueModuleOnModuleInit
    \/ \E q \in Queues : AddJob(q, NoOptions)
    \/ \E c \in 1..MaxConsumers : Deliver(c)
    \/ \E d \in inflight : HandlerReturn(d)

BootSpec == Init /\ [][BootNext]_vars

\* every hook runs, a ready message whose consumer has room is delivered, a
\* running handler finishes
BootFairness ==
    /\ WF_vars(QueueModuleOnModuleInit)
    /\ \A q \in Queues : WF_vars(ProcessorOnModuleInit(q, "h1"))
    /\ \A j \in 1..MaxJobs : SF_vars(DeliverJob(j)) /\ WF_vars(HandlerDone(j))

BootFairSpec == BootSpec /\ BootFairness

\* jobs with and without a delay on one logical queue, which has a consumer
\* and receives a foreign message, jobs without a delay on another, and the
\* two introspection calls on both; the connection stays up
PurgeOptions == {NoOptions, [NoOptions EXCEPT !.delay = <<1>>]}

PurgeNext ==
    \/ Connect
    \/ \E o \in PurgeOptions : AddJob("email-queue", o)
    \/ AddJob("search-indexing-queue", NoOptions)
    \/ \E q \in {"email-queue"} : RegisterProcessor(q, "h1")
    \/ \E q \in {"email-queue"} : PublishForeign(q)
    \/ \E c \in 1..MaxConsumers : Deliver(c)
    \/ \E d \in inflight : HandlerReturn(d)
    \/ \E qn \in DOMAIN queues : Expire(qn)
    \/ Tick
    \/ \E q \in Queues : GetQueueCount(q)
    \/ \E q \in Queues : PurgeQueue(q)

PurgeSpec == Init /\ [][PurgeNext]_vars

\* ------------------------------------------------------------- properties
JobIds == 1..Len(jobs)

InQueue(qn, j) ==
    /\ qn \in DOMAIN queues
    /\ \E i \in 1..Len(queues[qn].msgs) : queues[qn].msgs[i].content.id = j

ConsumersOn(qn) == {c \in 1..Len(consumers) : consumers[c].queue = qn}

InFlightOn(qn) == {d \in inflight : consumers[d.tag].queue = qn}

AllMessages ==
    UNION {{queues[qn].msgs[i] : i \in 1..Len(queues[qn].msgs)} : qn \in DOMAIN queues}
        \cup {d.msg : d \in inflight}

\* C1: a job is handed to the handler at most maxRetries times, and a
\* dead-lettered job has been handed to it exactly maxRetries times.
RetryBound ==
    \A j \in JobIds :
        /\ jobs[j].invoked <= jobs[j].maxRetries
        /\ jobs[j].settle = "dead" => jobs[j].invoked = jobs[j].maxRetries

\* C2: once the handler has failed on the maxRetries-th delivery of a job and
\* that delivery is settled, the job is in the dead-letter queue and not in
\* the main queue.
DeadLetterRouting ==
    \A j \in JobIds :
        (/\ jobs[j].invoked = jobs[j].maxRetries
         /\ jobs[j].outcome = "threw"
         /\ jobs[j].settle # "none")
        => /\ jobs[j].settle = "dead"
           /\ InQueue(getDeadLetterQueueName(jobs[j].queue), j)
           /\ ~InQueue(getQueueName(jobs[j].queue), j)

\* C3: a queue with one consumer has at most one unacknowledged delivery,
\* whether its handler is running or its retry timer is pending.
SingleFlight ==
    \A q \in Queues :
        Cardinality(ConsumersOn(getQueueName(q))) = 1
        => Cardinality(InFlightOn(getQueueName(q))) <= 1

SingleFlightWitness ==
    \E q \in Queues :
        /\ Cardinality(ConsumersOn(getQueueName(q))) = 1
        /\ Cardinality(InFlightOn(getQueueName(q))) = 1
        /\ queues[getQueueName(q)].msgs # <<>>

\* C4: a delivery is acked exactly when its handler returned normally, nacked
\* only when its handler threw, and not settled while the handler runs.
AckIffReturned ==
    \A j \in JobIds :
        /\ jobs[j].settle = "ack" <=> jobs[j].outcome = "ok"
        /\ jobs[j].settle \in {"requeue", "dead"} => jobs[j].outcome = "threw"
        /\ jobs[j].outcome = "running" => jobs[j].settle = "none"

AckIffReturnedWitness ==
    \E j, k \in JobIds :
        /\ jobs[j].settle = "ack" /\ jobs[j].outcome = "ok"
        /\ jobs[k].settle = "requeue" /\ jobs[k].outcome = "threw"

\* C5: every message in the broker carries attempts = 0 and the handler sees
\* attempts = 1 on the first delivery of a job.
AttemptsStart ==
    /\ \A m \in AllMessages : m.content.attempts = 0
    /\ \A j \in JobIds : jobs[j].invoked = 1 => jobs[j].observed = 1

AttemptsStartWitness ==
    \E j \in JobIds : jobs[j].invoked = 1 /\ jobs[j].outcome = "running"

\* C6: the k-th delivery of a job shows the handler attempts = k.
AttemptsCountDeliveries ==
    \A j \in JobIds :
        (jobs[j].invoked >= 1 /\ jobs[j].invoked < MaxInvoked)
        => jobs[j].observed = jobs[j].invoked

Terminal(j) == j \in JobIds /\ jobs[j].settle \in {"ack", "dead"}

\* C7: every job handed to the handler is eventually acknowledged or
\* dead-lettered (handlers terminate, timers fire, the connection stays up).
BoundedRetry ==
    \A j \in 1..MaxJobs :
        [](j \in JobIds /\ jobs[j].invoked >= 1 => <>Terminal(j))

MsgsOf(qs, qn) == IF qn \in DOMAIN qs THEN qs[qn].msgs ELSE <<>>

Ids(msgs) == [i \in 1..Len(msgs) |-> msgs[i].content.id]

\* C8: a successful addJob adds exactly one message, to the delay queue of
\* its delay when options.delay > 0 and to the main queue otherwise, and
\* leaves every other queue as it was; a failed addJob changes no queue.
AddJobPublishesOnce ==
    [][/\ Len(jobs') = Len(jobs) + 1 =>
            LET j == Len(jobs')
                target == IF jobs'[j].delay > 0
                          THEN getDelayQueueName(jobs'[j].queue, jobs'[j].delay)
                          ELSE getQueueName(jobs'[j].queue)
            IN  /\ lastOp' = [op |-> "addJob", ok |-> TRUE, ret |-> j]
                /\ target \in DOMAIN queues'
                /\ \A qn \in DOMAIN queues' :
                       Ids(MsgsOf(queues', qn)) =
                           IF qn = target THEN Append(Ids(MsgsOf(queues, qn)), j)
                           ELSE Ids(MsgsOf(queues, qn))
       /\ (lastOp' # lastOp /\ lastOp'.op = "addJob" /\ ~lastOp'.ok) =>
            queues' = queues /\ jobs' = jobs
      ]_vars

AddJobPublishesOnceWitness ==
    \E j \in JobIds :
        /\ lastOp = [op |-> "addJob", ok |-> TRUE, ret |-> j]
        /\ jobs[j].delay > 0
        /\ InQueue(getDelayQueueName(jobs[j].queue, jobs[j].delay), j)
        /\ ~InQueue(getQueueName(jobs[j].queue), j)

\* C9: a job enqueued with delay D > 0 stays in its delay queue, undelivered,
\* until D ms have passed, and its handler runs only after them.
DelayRespected ==
    \A j \in JobIds :
        jobs[j].delay > 0 =>
            /\ jobs[j].invoked >= 1 => jobs[j].elapsed >= jobs[j].delay
            /\ jobs[j].elapsed < jobs[j].delay =>
                   /\ InQueue(getDelayQueueName(jobs[j].queue, jobs[j].delay), j)
                   /\ ~InQueue(getQueueName(jobs[j].queue), j)

DelayRespectedWitness ==
    \E j \in JobIds :
        /\ jobs[j].delay > 0
        /\ jobs[j].invoked >= 1
        /\ jobs[j].elapsed = jobs[j].delay

\* C10: a delayed job whose queue has a consumer is eventually handed to the
\* handler.
DelayedNotLost ==
    \A j \in 1..MaxJobs :
        []((/\ j \in JobIds
            /\ jobs[j].delay > 0
            /\ ConsumersOn(getQueueName(jobs[j].queue)) # {})
           => <>(j \in JobIds /\ jobs[j].invoked >= 1))

\* the topology ensureQueue(name) leaves: the main queue dead-lettering into
\* the dead-letter queue of the name
TopologyOf(name) ==
    /\ getQueueName(name) \in DOMAIN queues
    /\ getDeadLetterQueueName(name) \in DOMAIN queues
    /\ queues[getQueueName(name)].args =
           [ttl |-> 0, dlk |-> <<getDeadLetterQueueName(name)>>]
    /\ queues[getDeadLetterQueueName(name)].args = [ttl |-> 0, dlk |-> <<>>]

\* C11: ensureQueue is idempotent: once a queue name has been declared, its
\* main queue and its dead-letter queue both exist with the arguments of the
\* first declaration, and one more ensureQueue for the name is not refused and
\* changes nothing, messages included.
EnsureQueueIdempotent ==
    \A q \in Queues :
        (\/ getQueueName(q) \in DOMAIN queues
         \/ getDeadLetterQueueName(q) \in DOMAIN queues)
        => /\ TopologyOf(q)
           /\ ~ensureQueueRefused(queues, q)
           /\ ensureQueue(queues, q) = queues

\* ensureQueue has just succeeded on a queue that already held a job
EnsureQueueIdempotentWitness ==
    /\ lastOp = [op |-> "ensureQueue", ok |-> TRUE, ret |-> 0]
    /\ TopologyOf("email-queue")
    /\ Len(queues[getQueueName("email-queue")].msgs) >= 1

\* the calls that need the channel
ChannelCalls == {"ensureQueue", "addJob", "registerProcessor", "getQueueCount",
                 "purgeQueue"}

\* C12: while the provider has no channel, every ensureQueue, addJob,
\* registerProcessor, getQueueCount and purgeQueue call has failed with the
\* channel-not-available error, and nothing exists that such a call would have
\* made: no queue, no message, no stored handler, no consumer, no job. A call
\* that fails for want of a usable channel changes none of these.
NoChannelCallsFail ==
    /\ [](~channel.open =>
            /\ lastOp.op \in ChannelCalls => ~lastOp.ok /\ lastErr = "unavailable"
            /\ queues = <<>>
            /\ processors = [q \in Queues |-> NoHandler]
            /\ consumers = <<>>
            /\ inflight = {}
            /\ jobs = <<>>)
    /\ [][(/\ ChannelError # "none"
           /\ lastOp'.op \in ChannelCalls
           /\ <<lastOp, lastErr>>' # <<lastOp, lastErr>>)
          => /\ ~lastOp'.ok
             /\ UNCHANGED <<channel, queues, processors, consumers, inflight, jobs>>
      ]_vars

\* registerProcessor has just failed for want of a channel
NoChannelCallsFailWitness ==
    /\ ~channel.open
    /\ lastOp = [op |-> "registerProcessor", ok |-> FALSE, ret |-> 0]
    /\ lastErr = "unavailable"

\* C13: an addJob made while the connection is down after a broker-initiated
\* close fails with the channel-not-available error, the error of a missing
\* channel; an addJob made while the connection is up succeeds.
AddJobFailsWhileDown ==
    [][(/\ lastOp'.op = "addJob"
        /\ <<lastOp, lastErr, jobs>>' # <<lastOp, lastErr, jobs>>)
       => /\ link = "lost" => ~lastOp'.ok /\ lastErr' = "unavailable"
          /\ link = "up" => lastOp'.ok
      ]_vars

\* C14: while the connection is down after a broker-initiated close, a
\* reconnect attempt is pending: a failed attempt schedules the next one.
ReconnectKeepsTrying == link = "lost" => reconnectTimer

\* C15: while the connection is up, and disconnect() has closed nothing so
\* far, every queue with a registered processor has a consumer on the current
\* channel: a reconnect after a broker-initiated close re-attaches them.
ProcessorsReattached ==
    (link = "up" /\ closeCalls = <<>>) =>
        \A q \in Queues :
            processors[q] # NoHandler => ConsumersOn(getQueueName(q)) # {}

\* C16: connect() returns normally whatever happens. Without a URL nothing is
\* ever connected: isConnected() is false, no reconnect is scheduled, and
\* addJob and registerProcessor fail with the channel-not-available error.
\* With a URL and no broker the attempt leaves the provider disconnected and
\* the caller sees no error.
ConnectNeverThrows ==
    /\ lastOp.op = "connect" => lastOp.ok /\ lastErr = "none"
    /\ ~url => /\ link = "none"
               /\ ~isConnected
               /\ ~reconnectTimer
               /\ lastOp.op \in {"addJob", "registerProcessor"} =>
                      ~lastOp.ok /\ lastErr = "unavailable"
    /\ link = "none" => ~isConnected

\* connect() has just returned from an attempt the broker did not answer
ConnectNeverThrowsWitness ==
    /\ url
    /\ ~brokerUp
    /\ link = "none"
    /\ lastOp = [op |-> "connect", ok |-> TRUE, ret |-> 0]

\* C17: disconnect() returns normally whatever happens; it never closes the
\* connection before the channel, a disconnect() on an open connection closes
\* the channel and then the connection, and a close that throws is swallowed.
DisconnectBestEffort ==
    /\ [](/\ lastOp.op = "disconnect" => lastOp.ok /\ lastErr = "none"
          /\ closeCalls \in {<<>>, <<"channel">>, <<"channel", "connection">>})
    /\ [][(link = "up" /\ link' = "closed")
          => /\ lastOp' = [op |-> "disconnect", ok |-> TRUE, ret |-> 0]
             /\ closeCalls' = <<"channel", "connection">>]_vars

\* disconnect() has just closed the channel and then the connection
DisconnectBestEffortWitness ==
    /\ lastOp = [op |-> "disconnect", ok |-> TRUE, ret |-> 0]
    /\ link = "closed"
    /\ closeCalls = <<"channel", "connection">>

\* the number of messages carrying job id j, ready in a queue or unacknowledged
Copies(j) ==
    Cardinality(UNION {{<<qn, i>> : i \in {k \in 1..Len(queues[qn].msgs) :
                                              queues[qn].msgs[k].content.id = j}} :
                       qn \in DOMAIN queues})
    + Cardinality({d \in inflight : d.msg.content.id = j})

\* C18: every message carries one id as envelope id and as broker message id,
\* the id of a job that addJob returned; each job that has not been
\* acknowledged is carried by exactly one message, wherever it is (delay queue,
\* main queue, unacknowledged at a consumer, dead-letter queue), so no two jobs
\* share an id and a job keeps its id; addJob returns the id of the job it made.
JobIdsUnique ==
    /\ \A m \in AllMessages : m.messageId = m.content.id /\ m.content.id \in JobIds
    /\ \A j \in JobIds : Copies(j) = IF jobs[j].settle = "ack" THEN 0 ELSE 1
    /\ (lastOp.op = "addJob" /\ lastOp.ok) => lastOp.ret = Len(jobs)

\* two jobs, one of which left its delay queue and was delivered twice
JobIdsUniqueWitness ==
    /\ Len(jobs) = 2
    /\ \E j \in JobIds :
           /\ jobs[j].delay > 0
           /\ jobs[j].invoked >= 2
           /\ Copies(j) = 1

\* what an option asks for: its value when given, the default when not
Given(o, default) == IF o = <<>> THEN default ELSE o[1]

\* C19: the retry limit and the retry delay the consumer applies to a failed
\* job are the maxRetries and retryDelay of the options the job was enqueued
\* with, and 3 and 5000 ms where the option was not given.
RetryOptionsApplied ==
    \A d \in inflight :
        d.phase = "retryWait" =>
            LET o == jobs[d.msg.content.id].options
            IN  /\ AppliedMaxRetries(d.msg) = Given(o.maxRetries, DefaultMaxRetries)
                /\ d.retryDelay = Given(o.retryDelay, DefaultRetryDelay)

\* C20: every failed processing attempt ends in a nack decision taken inside
\* the consumer callback: an unacknowledged message has its handler running or
\* its requeue timer pending, and no error has left a callback.
FailuresResolved ==
    /\ ~unhandled
    /\ \A d \in inflight : d.phase \in {"running", "retryWait"}

\* C21: a delivered message whose body does not decode is dead-lettered by the
\* callback that received it: no such message stays unacknowledged at a
\* consumer.
MalformedDeadLettered == \A d \in inflight : Decodable(d.msg)

\* C22: a queue name has at most one consumption loop, and a handler running
\* for a message of the queue is the one registered last for it.
OneRegistration ==
    \A q \in Queues :
        /\ Cardinality(ConsumersOn(getQueueName(q))) <= 1
        /\ \A d \in InFlightOn(getQueueName(q)) :
               d.phase = "running" => consumers[d.tag].handler = processors[q]

\* job j's message is ready in some delay queue
InDelayQueue(j) ==
    \E qn \in DOMAIN queues : queues[qn].args.ttl > 0 /\ InQueue(qn, j)

\* C23: a job made by addDelayedJob(queue, type, data, delayMs, options) is the
\* job addJob makes from the options with delay set to delayMs, whatever delay
\* the options held: the other options are kept, with delayMs <= 0 the message
\* goes to the main queue and never to a delay queue, and with delayMs > 0 it
\* waits in the delay queue of delayMs until that time has passed.
AddDelayedJobIsAddJob ==
    \A j \in JobIds :
        LET o == jobs[j].options
        IN  /\ o.delay # <<>>
            /\ o.delay[1] \in FacadeDelays
            /\ \E given \in FacadeOptions : o = [given EXCEPT !.delay = o.delay]
            /\ \A m \in AllMessages :
                   m.content.id = j => m.headers = MessageHeaders(o)
            /\ Copies(j) = IF jobs[j].settle = "ack" THEN 0 ELSE 1
            /\ o.delay[1] <= 0 =>
                   /\ ~InDelayQueue(j)
                   /\ getDelayQueueName(jobs[j].queue, o.delay[1]) \notin DOMAIN queues
            /\ o.delay[1] > 0 =>
                   /\ jobs[j].invoked >= 1 => jobs[j].elapsed >= o.delay[1]
                   /\ jobs[j].elapsed < o.delay[1] =>
                          InQueue(getDelayQueueName(jobs[j].queue, o.delay[1]), j)

\* a job whose options held a delay, made with a negative delayMs and waiting
\* in the main queue
AddDelayedJobIsAddJobWitness ==
    \E j \in JobIds :
        /\ jobs[j].options.maxRetries = <<1>>
        /\ jobs[j].options.delay = <<-1>>
        /\ InQueue(getQueueName(jobs[j].queue), j)

\* C24: of two jobs enqueued without delay on one queue, the one addJob was
\* called for later is not handed to a handler before the earlier one has
\* been, whatever priority their options ask for.
FifoOrder ==
    \A i \in JobIds, j \in JobIds :
        (/\ i < j
         /\ jobs[i].queue = jobs[j].queue
         /\ jobs[i].delay = 0 /\ jobs[j].delay = 0
         /\ jobs[j].invoked >= 1)
        => jobs[i].invoked >= 1

\* a job with priority 9 enqueued after a job without one; both were handed
\* to the handler once, the earlier one has finished
FifoOrderWitness ==
    /\ Len(jobs) = 2
    /\ jobs[1].options.priority = <<>> /\ jobs[2].options.priority = <<9>>
    /\ jobs[1].invoked = 1 /\ jobs[1].settle = "ack"
    /\ jobs[2].invoked = 1

\* C25: a consumer that has nothing unacknowledged can be handed the next
\* ready message of its queue, whatever is in flight on other queues.
QueuesIndependent ==
    \A c \in 1..Len(consumers) :
        (/\ link = "up"
         /\ consumers[c].queue \in DOMAIN queues
         /\ queues[consumers[c].queue].msgs # <<>>
         /\ Unacked(c) = {})
        => ENABLED Deliver(c)

\* one queue waits out a retry delay while the handler of another queue runs
QueuesIndependentWitness ==
    \E d1 \in inflight, d2 \in inflight :
        /\ consumers[d1.tag].queue # consumers[d2.tag].queue
        /\ d1.phase = "retryWait"
        /\ d2.phase = "running"

\* C26: while a failed delivery waits for its retry timer the message is
\* unacknowledged and in no queue, no nack has been issued for it, and on a
\* queue with one consumer it is the only delivery and no further message can
\* be handed out; the requeueing nack is issued by the timer and by nothing
\* else.
RetryWaitsForTimer ==
    /\ [](\A d \in inflight :
            d.phase = "retryWait" =>
                LET qn == consumers[d.tag].queue
                IN  /\ Copies(d.msg.content.id) = 1
                    /\ jobs[d.msg.content.id].settle = "none"
                    /\ Cardinality(ConsumersOn(qn)) = 1 =>
                           /\ InFlightOn(qn) = {d}
                           /\ \A c \in ConsumersOn(qn) : ~ENABLED Deliver(c))
    /\ [][\A j \in JobIds :
            (jobs'[j].settle = "requeue" /\ jobs[j].settle # "requeue") =>
                \E d \in inflight :
                    /\ d.msg.content.id = j
                    /\ d.phase = "retryWait"
                    /\ d \notin inflight'
      ]_vars

\* a failed job waits for its timer while another job is ready behind it
RetryWaitsForTimerWitness ==
    \E d \in inflight :
        /\ d.phase = "retryWait"
        /\ Cardinality(ConsumersOn(consumers[d.tag].queue)) = 1
        /\ queues[consumers[d.tag].queue].msgs # <<>>

\* C28: isConnected(), which isHealthy() returns, is true only while the
\* connection and its channel are open: after a broker-initiated close or a
\* disconnect() it is false until the next successful connect.
HealthyOnlyWhileOpen == isConnected => link = "up"

\* C29: disconnect() is final: closing an open connection schedules no
\* reconnect, and once closed the provider stays closed (no step of this model
\* is an explicit connect() after a disconnect()).
DisconnectIsFinal ==
    [][/\ (link = "up" /\ link' = "closed") => ~reconnectTimer'
       /\ link = "closed" => link' = "closed"
      ]_vars

\* C27: an ack or nack is issued only on the channel that delivered its
\* message: a callback whose connection was replaced while its handler ran or
\* its retry timer was pending sends nothing on the new channel.
AckOnDeliveringChannel == ~misdirected

\* C30: no job is lost or duplicated: at all times a job is carried by at most
\* one message (in its delay queue, the main queue, unacknowledged at a
\* consumer or in the dead-letter queue), and by none only once it is
\* completed, its handler having returned normally.
NoJobLostOrDuplicated ==
    \A j \in JobIds :
        /\ Copies(j) <= 1
        /\ Copies(j) = 0 => jobs[j].returned

\* C31: a failing job does not starve its queue: every job enqueued on a queue
\* that has a consumer is eventually handed to the handler, whatever the jobs
\* ahead of it do (handlers terminate, timers fire, the connection stays up).
NoStarvation ==
    \A j \in 1..MaxJobs :
        []((j \in JobIds /\ ConsumersOn(getQueueName(jobs[j].queue)) # {})
           => <>(j \in JobIds /\ jobs[j].invoked >= 1))

\* C32: a delivery is settled at most once: while its callback still runs or
\* waits for its timer nothing has been issued for it, and an ack or nack is
\* issued only for a delivery for which none was issued before.
SettledAtMostOnce ==
    /\ [](\A d \in inflight :
            Decodable(d.msg) => jobs[d.msg.content.id].settle = "none")
    /\ [][\A j \in JobIds :
            (jobs'[j].settle # jobs[j].settle /\ jobs'[j].settle # "none") =>
                /\ jobs[j].settle = "none"
                /\ \E d \in inflight : d.msg.content.id = j /\ d \notin inflight'
      ]_vars

\* a job whose first delivery was requeued and whose second was acknowledged,
\* next to a job whose delivery is still open
SettledAtMostOnceWitness ==
    /\ \E j \in JobIds : jobs[j].invoked >= 2 /\ jobs[j].settle = "ack"
    /\ \E d \in inflight : d.phase = "retryWait"

\* job j's handler returned normally and the broker took the acknowledgement
Completed(j) == jobs[j].settle = "ack" /\ jobs[j].returned

\* C33: once a job is acknowledged after its handler returned normally, no
\* message carries it any more (in no main, delay or dead-letter queue, and not
\* unacknowledged), its handler is not invoked again and it stays acknowledged.
AckIsFinal ==
    /\ [](\A j \in JobIds : Completed(j) => Copies(j) = 0)
    /\ [][\A j \in JobIds :
            Completed(j) => /\ jobs'[j].invoked = jobs[j].invoked
                            /\ jobs'[j].settle = "ack"
      ]_vars

\* a job completed on its second delivery while another job is handled after it
AckIsFinalWitness ==
    \E j \in JobIds :
        /\ Completed(j)
        /\ jobs[j].invoked >= 2
        /\ \E d \in inflight : d.msg.content.id # j

\* C34: while a handler invocation has not completed nothing is issued for its
\* message, whatever the job's options.timeout: the message stays
\* unacknowledged, a delivery leaves that state only in the step in which its
\* handler returns or throws, and on a queue with one consumer no further
\* message can be handed out meanwhile.
NoHandlerTimeout ==
    /\ [](\A d \in inflight :
            d.phase = "running" =>
                LET qn == consumers[d.tag].queue
                IN  /\ jobs[d.msg.content.id].settle = "none"
                    /\ jobs[d.msg.content.id].outcome = "running"
                    /\ Copies(d.msg.content.id) = 1
                    /\ Cardinality(ConsumersOn(qn)) = 1 => ~ENABLED Deliver(d.tag))
    /\ [][\A d \in inflight :
            (d.phase = "running" /\ d \notin inflight') =>
                jobs'[d.msg.content.id].outcome \in {"ok", "threw"}
      ]_vars

\* the handler runs for a job with a timeout of 1 ms while another job is ready
NoHandlerTimeoutWitness ==
    \E d \in inflight :
        /\ d.phase = "running"
        /\ jobs[d.msg.content.id].options.timeout = <<1>>
        /\ Cardinality(ConsumersOn(consumers[d.tag].queue)) = 1
        /\ queues[consumers[d.tag].queue].msgs # <<>>

\* C35: whenever the main queue of a logical name exists its dead-letter queue
\* exists too and is the main queue's dead-letter target, the dead-letter
\* queue itself has none; every delay queue of the name exists only next to
\* the main queue and dead-letters into the main queue, never into the
\* dead-letter queue.
TopologyComplete ==
    \A q \in Queues :
        LET main == getQueueName(q)
            dlq == getDeadLetterQueueName(q)
        IN  /\ main \in DOMAIN queues =>
                   /\ dlq \in DOMAIN queues
                   /\ queues[main].args = [ttl |-> 0, dlk |-> <<dlq>>]
                   /\ queues[dlq].args = [ttl |-> 0, dlk |-> <<>>]
            /\ \A delay \in 1..MaxDelay :
                   getDelayQueueName(q, delay) \in DOMAIN queues =>
                       /\ main \in DOMAIN queues
                       /\ queues[getDelayQueueName(q, delay)].args
                              = [ttl |-> delay, dlk |-> <<main>>]

\* a delayed job left its delay queue and reached the handler
TopologyCompleteWitness ==
    \E j \in JobIds :
        /\ jobs[j].delay > 0
        /\ getDelayQueueName(jobs[j].queue, jobs[j].delay) \in DOMAIN queues
        /\ jobs[j].invoked >= 1

\* the delays > 0 that successful addJob calls have asked for on queue q
DelaysRequested(q) ==
    {jobs[j].delay : j \in {i \in JobIds : jobs[i].queue = q /\ jobs[i].delay > 0}}

\* the queues with a message TTL that exist
DelayQueues == {qn \in DOMAIN queues : queues[qn].args.ttl > 0}

\* C36: the delay queues of a logical queue are exactly one per distinct
\* positive delay that addJob was asked for on it so far, named
\* <queue>.delay.<ms> with TTL = ms: a repeated delay adds no queue, a job
\* with no delay or a delay of 0 adds none.
DelayQueuePerValue ==
    /\ DelayQueues =
           UNION {{getDelayQueueName(q, delay) : delay \in DelaysRequested(q)} :
                  q \in Queues}
    /\ \A q \in Queues : \A delay \in DelaysRequested(q) :
           queues[getDelayQueueName(q, delay)].args.ttl = delay

\* two jobs with different positive delays on one queue
DelayQueuePerValueWitness ==
    /\ Len(jobs) = 2
    /\ jobs[1].queue = jobs[2].queue
    /\ jobs[1].delay > 0 /\ jobs[2].delay > 0
    /\ jobs[1].delay # jobs[2].delay

\* C37: a registerProcessor that fails stores no handler and starts no
\* consumer, and every queue name with a stored handler has a consumer.
RegistryMatchesConsumers ==
    /\ [](\A q \in Queues :
            processors[q] # NoHandler => ConsumersOn(getQueueName(q)) # {})
    /\ [][(/\ lastOp'.op = "registerProcessor"
           /\ ~lastOp'.ok
           /\ <<lastOp, lastErr>>' # <<lastOp, lastErr>>)
          => UNCHANGED <<processors, consumers>>
      ]_vars

\* C38: a processor whose registration at start failed comes to consume all
\* the same: once its onModuleInit has run and the provider is connected, its
\* queue has a consumer, and every job enqueued for it is eventually handed to
\* the handler.
InitFailureRecovered ==
    /\ [](\A q \in Queues :
            (q \in initialised /\ link = "up") => ConsumersOn(getQueueName(q)) # {})
    /\ \A j \in 1..MaxJobs :
          []((j \in JobIds /\ jobs[j].queue \in initialised /\ link = "up")
             => <>(j \in JobIds /\ jobs[j].invoked >= 1))

====
